---- MODULE Spec2Model ----
(***************************************************************************)
(* Model of the interactive yt-dlp front end in src/src/main.rs: the       *)
(* listing parser (FormatOption::parse_format_line,                        *)
(* parse_available_formats), the classification and menu construction of   *)
(* download_media, and the sequence of prompts and subprocesses of main.   *)
(* Text is kept as strings; a character is a string of length 1.           *)
(***************************************************************************)
EXTENDS Integers, Sequences, FiniteSets, TLC

VARIABLES
    pc,               \* position of the single thread of control
    in_tokens,        \* tokens the one-line listing was written from (SpecParse)
    in_sep,           \* separator the one-line listing was written with (SpecParse)
    stdout,           \* lines of the captured standard output of `yt-dlp -F`
    parsed_formats,   \* Vec<FormatOption> of parse_available_formats
    video_resolutions,\* BTreeMap<Option<u32>, Vec<&FormatOption>>
    audio_formats,    \* Vec<&FormatOption>
    download_type,    \* "Video" | "Audio" | "unset"
    best_audio,       \* the Option best_audio was taken from
    mp4_formats,      \* Vec<(u32, FormatOption)> after sort and truncate
    menu,             \* labels handed to the quality/format Select
    selected_idx,     \* index the quality/format Select returned, or -1
    format_arg,       \* the -f argument of the primary download
    spawned,          \* subprocesses started so far, in order
    running,          \* the subprocess whose exit is awaited, or "none"
    statuses,         \* exit statuses collected so far, in order
    history,          \* observable steps of the run, in order
    dir_created,      \* create_dir_all succeeded
    success_reported, \* a "... completed successfully!" line was printed
    stderr,           \* what the process printed when it ended abnormally
    exit_code         \* -1 while running, else the process exit status

vars == <<pc, in_tokens, in_sep, stdout, parsed_formats, video_resolutions,
          audio_formats, download_type, best_audio, mp4_formats, menu,
          selected_idx, format_arg, spawned, running, statuses, history, dir_created,
          success_reported, stderr, exit_code>>

----------------------------------------------------------------------------
(* Bounds of the model.                                                    *)

\* longest line, in tokens, of the one-line listings of SpecParse
MaxTokens == 4
\* number of video lines of VideoLines a listing is cut from
MaxVideoLines == 9

----------------------------------------------------------------------------
(* Option<T>: the empty sequence is None, <<v>> is Some(v).                *)

None == <<>>
Some(v) == <<v>>
IsSome(o) == Len(o) = 1

----------------------------------------------------------------------------
(* Strings.                                                                *)

Char(s, i) == SubSeq(s, i, i)

\* char::is_whitespace, on the characters the model's text is written with
IsWhitespace(c) == c \in {" ", "\t"}

\* str::contains with a string pattern
Contains(s, pat) ==
    \E i \in 1..(Len(s) - Len(pat) + 1) : SubSeq(s, i, i + Len(pat) - 1) = pat

\* str::starts_with
StartsWith(s, pat) == Len(s) >= Len(pat) /\ SubSeq(s, 1, Len(pat)) = pat

\* str::ends_with
EndsWith(s, pat) ==
    Len(s) >= Len(pat) /\ SubSeq(s, Len(s) - Len(pat) + 1, Len(s)) = pat

\* str::split on a one-character pattern: the pieces, empty ones included
RECURSIVE SplitFrom(_, _, _, _)
SplitFrom(s, c, i, cur) ==
    IF i > Len(s) THEN <<cur>>
    ELSE IF Char(s, i) = c THEN <<cur>> \o SplitFrom(s, c, i + 1, "")
    ELSE SplitFrom(s, c, i + 1, cur \o Char(s, i))

Split(s, c) == SplitFrom(s, c, 1, "")

\* str::split_whitespace: the maximal runs of non-whitespace characters
RECURSIVE SplitWsFrom(_, _, _)
SplitWsFrom(s, i, cur) ==
    IF i > Len(s) THEN (IF cur = "" THEN <<>> ELSE <<cur>>)
    ELSE IF IsWhitespace(Char(s, i))
         THEN (IF cur = "" THEN <<>> ELSE <<cur>>) \o SplitWsFrom(s, i + 1, "")
    ELSE SplitWsFrom(s, i + 1, cur \o Char(s, i))

split_whitespace(s) == SplitWsFrom(s, 1, "")

\* str::trim: leading and trailing whitespace removed; only emptiness is used
TrimIsEmpty(s) == split_whitespace(s) = <<>>

\* str::trim_start_matches: every leading repetition of pat removed
RECURSIVE trim_start_matches(_, _)
trim_start_matches(s, pat) ==
    IF Len(pat) > 0 /\ StartsWith(s, pat)
    THEN trim_start_matches(SubSeq(s, Len(pat) + 1, Len(s)), pat)
    ELSE s

\* str::trim_end_matches: every trailing repetition of pat removed
RECURSIVE trim_end_matches(_, _)
trim_end_matches(s, pat) ==
    IF Len(pat) > 0 /\ EndsWith(s, pat)
    THEN trim_end_matches(SubSeq(s, 1, Len(s) - Len(pat)), pat)
    ELSE s

\* [&str]::join(" ")
RECURSIVE Join(_, _)
Join(parts, sep) ==
    IF Len(parts) = 0 THEN ""
    ELSE IF Len(parts) = 1 THEN parts[1]
    ELSE parts[1] \o sep \o Join(Tail(parts), sep)

Digits == {"0", "1", "2", "3", "4", "5", "6", "7", "8", "9"}

DigitVal(c) ==
    CASE c = "0" -> 0 [] c = "1" -> 1 [] c = "2" -> 2 [] c = "3" -> 3
      [] c = "4" -> 4 [] c = "5" -> 5 [] c = "6" -> 6 [] c = "7" -> 7
      [] c = "8" -> 8 [] c = "9" -> 9

RECURSIVE DecimalValue(_, _)
DecimalValue(s, acc) ==
    IF Len(s) = 0 THEN acc
    ELSE DecimalValue(SubSeq(s, 2, Len(s)), acc * 10 + DigitVal(Char(s, 1)))

\* u32::MAX, in decimal digits
U32MaxDigits == "4294967295"

\* leading zeros removed
RECURSIVE StripZeros(_)
StripZeros(s) ==
    IF Len(s) > 1 /\ Char(s, 1) = "0" THEN StripZeros(SubSeq(s, 2, Len(s))) ELSE s

\* a > b, for digit strings of one length
RECURSIVE DigitsGreater(_, _)
DigitsGreater(a, b) ==
    IF Len(a) = 0 THEN FALSE
    ELSE IF Char(a, 1) # Char(b, 1) THEN DigitVal(Char(a, 1)) > DigitVal(Char(b, 1))
    ELSE DigitsGreater(SubSeq(a, 2, Len(a)), SubSeq(b, 2, Len(b)))

\* the number does not fit a u32
OverflowsU32(digits) ==
    LET d == StripZeros(digits)
    IN  \/ Len(d) > Len(U32MaxDigits)
        \/ Len(d) = Len(U32MaxDigits) /\ DigitsGreater(d, U32MaxDigits)

\* str::parse::<u32>().ok(): an optional '+', then one or more decimal digits,
\* the value within u32; anything else is None
ParseU32(s) ==
    LET body == IF StartsWith(s, "+") THEN SubSeq(s, 2, Len(s)) ELSE s
    IN  IF Len(body) = 0 THEN None
        ELSE IF \E i \in 1..Len(body) : Char(body, i) \notin Digits THEN None
        ELSE IF OverflowsU32(body) THEN None
        ELSE Some(DecimalValue(body, 0))

\* Iterator::position / Iterator::find: the least of the (1-based) indices
\* that satisfy the test, as an index from 0
FirstIndex(matching) ==
    IF matching = {} THEN None
    ELSE Some((CHOOSE i \in matching : \A j \in matching : i <= j) - 1)

----------------------------------------------------------------------------
(* FormatOption::parse_format_line.                                        *)

IsSizeUnit(p) == p = "MiB" \/ p = "KiB" \/ p = "GiB"

\* the second literal stripped at main.rs:70 (a multi-byte mark in the source)
ApproxMark == "=~"

\* Lines 57-60: the first token containing 'x', its second 'x'-piece, as u32
ParseResolution(parts) ==
    LET pos == FirstIndex({i \in 1..Len(parts) : Contains(parts[i], "x")})
    IN  IF ~IsSome(pos) THEN None
        ELSE ParseU32(Split(parts[pos[1] + 1], "x")[2])

\* Lines 67-77
ParseFilesize(parts) ==
    LET size_pos == FirstIndex({i \in 1..Len(parts) : IsSizeUnit(parts[i])})
    IN  IF IsSome(size_pos) /\ size_pos[1] > 0
        THEN Some(trim_start_matches(
                      trim_start_matches(parts[size_pos[1]], "~"), ApproxMark)
                  \o " " \o parts[size_pos[1] + 1])
        ELSE None

\* Lines 80-84: parts[2..size_pos-1].join(" ") or parts[2..].join(" ").
\* size_pos - 1 is usize arithmetic and the range is bounds-checked: with
\* size_pos = 0 the subtraction overflows (a panic in a debug build, usize::MAX
\* and then an out-of-range end in a release build), and with size_pos in
\* {1, 2} the range starts after its end; every one of these panics.
DescriptionPanics(parts) ==
    LET size_pos == FirstIndex({i \in 1..Len(parts) : IsSizeUnit(parts[i])})
    IN  IsSome(size_pos) /\ size_pos[1] - 1 < 2

ParseDescription(parts) ==
    LET size_pos == FirstIndex({i \in 1..Len(parts) : IsSizeUnit(parts[i])})
    IN  IF IsSome(size_pos)
        THEN Join(SubSeq(parts, 3, size_pos[1] - 1), " ")
        ELSE Join(SubSeq(parts, 3, Len(parts)), " ")

\* Line 64
IsAudioLine(line) == Contains(line, "audio only")

\* a variant of IsVideoLine that takes every line for a video line
IsVideoLineAlways(line) == TRUE

\* Line 63
IsVideoLine(line) == ~Contains(line, "audio only")

\* The outcome of the call: tag "None", "Some" (with val) or "Panic"
parse_format_line(line) ==
    LET parts == split_whitespace(line)
    IN  IF Len(parts) < 3 THEN [tag |-> "None", val |-> None]
        ELSE IF DescriptionPanics(parts) THEN [tag |-> "Panic", val |-> None]
        ELSE [tag |-> "Some",
              val |-> Some([id                 |-> parts[1],
                            format_description |-> ParseDescription(parts),
                            resolution         |-> ParseResolution(parts),
                            is_video           |-> IsVideoLine(line),
                            is_audio           |-> IsAudioLine(line),
                            extension          |-> parts[2],
                            filesize           |-> ParseFilesize(parts)])]

----------------------------------------------------------------------------
(* parse_available_formats.                                                *)

\* Line 113: header, log and blank lines are skipped before parsing
IsSkippedLine(line) ==
    StartsWith(line, "ID") \/ StartsWith(line, "[info]") \/ TrimIsEmpty(line)

\* Lines 108-123. A panic of parse_format_line unwinds through the loop.
RECURSIVE parse_available_formats(_)
parse_available_formats(lines) ==
    IF Len(lines) = 0 THEN [tag |-> "Ok", val |-> <<>>]
    ELSE IF IsSkippedLine(lines[1]) THEN parse_available_formats(Tail(lines))
    ELSE LET first == parse_format_line(lines[1])
             rest  == parse_available_formats(Tail(lines))
         IN  IF first.tag = "Panic" \/ rest.tag = "Panic"
             THEN [tag |-> "Panic", val |-> <<>>]
             ELSE [tag |-> "Ok", val |-> first.val \o rest.val]

----------------------------------------------------------------------------
(* Classification and selection in download_media.                         *)

\* Line 191
IsVideoOnly(f) == f.is_video /\ ~f.is_audio

\* Line 193
IsAudioOnly(f) == f.is_audio /\ ~f.is_video

\* Lines 187-196: video formats grouped by resolution (None is a key too)
GroupVideo(formats) ==
    LET videos == SelectSeq(formats, IsVideoOnly)
        keys   == {videos[i].resolution : i \in 1..Len(videos)}
    IN  [k \in keys |-> SelectSeq(videos, LAMBDA f : f.resolution = k)]

\* Lines 188-196: audio formats in listing order
CollectAudio(formats) == SelectSeq(formats, IsAudioOnly)

\* a variant of BestAudio without the m4a preference
BestAudioFirst(audio) == IF Len(audio) > 0 THEN Some(audio[1]) ELSE None

\* Lines 220-222: the first m4a format, else the first format
BestAudio(audio) ==
    LET m4a == FirstIndex({i \in 1..Len(audio) : audio[i].extension = "m4a"})
    IN  IF IsSome(m4a) THEN Some(audio[m4a[1] + 1])
        ELSE IF Len(audio) > 0 THEN Some(audio[1])
        ELSE None

\* Lines 234-238: the number before the 'k' of the first word ending in 'k'
Bitrate(f) ==
    LET words == split_whitespace(f.format_description)
        pos   == FirstIndex({i \in 1..Len(words) : EndsWith(words[i], "k")})
        num   == IF IsSome(pos)
                 THEN ParseU32(trim_end_matches(words[pos[1] + 1], "k"))
                 ELSE None
    IN  IF IsSome(num) THEN num[1] ELSE 0

\* Iterator::max_by_key: the last element with the greatest key
MaxByBitrate(formats) ==
    IF Len(formats) = 0 THEN None
    ELSE Some(formats[CHOOSE i \in 1..Len(formats) :
                  /\ \A j \in 1..Len(formats) :
                         Bitrate(formats[j]) <= Bitrate(formats[i])
                  /\ \A j \in (i + 1)..Len(formats) :
                         Bitrate(formats[j]) < Bitrate(formats[i])])

\* Lines 230-240: the best MP4 format of one resolution group
BestMp4(formats) ==
    MaxByBitrate(SelectSeq(formats, LAMBDA f : f.is_video /\ f.extension = "mp4"))

\* the keys of the map that are Some(resolution), as resolutions
SomeKeys(groups) == {k[1] : k \in {q \in DOMAIN groups : IsSome(q)}}

\* BTreeMap iteration: the resolutions in ascending order
RECURSIVE Ascending(_)
Ascending(S) ==
    IF S = {} THEN <<>>
    ELSE LET m == CHOOSE x \in S : \A y \in S : x <= y
         IN  <<m>> \o Ascending(S \ {m})

\* Lines 226-245: (resolution, best MP4 format) of every group that has one
RECURSIVE CollectFrom(_, _)
CollectFrom(groups, order) ==
    IF Len(order) = 0 THEN <<>>
    ELSE LET best == BestMp4(groups[Some(order[1])])
         IN  (IF IsSome(best) THEN <<[res |-> order[1], fmt |-> best[1]]>>
              ELSE <<>>) \o CollectFrom(groups, Tail(order))

CollectMp4(groups) == CollectFrom(groups, Ascending(SomeKeys(groups)))

\* Line 248: stable sort, greatest resolution first
RECURSIVE InsertDesc(_, _)
InsertDesc(sorted, e) ==
    IF Len(sorted) = 0 THEN <<e>>
    ELSE IF sorted[1].res >= e.res THEN <<sorted[1]>> \o InsertDesc(Tail(sorted), e)
    ELSE <<e>> \o sorted

RECURSIVE SortDesc(_)
SortDesc(seq) ==
    IF Len(seq) = 0 THEN <<>>
    ELSE InsertDesc(SortDesc(SubSeq(seq, 1, Len(seq) - 1)), seq[Len(seq)])

\* Line 249
MenuLimit == 5

\* Vec::truncate
Truncate(seq, n) == IF Len(seq) > n THEN SubSeq(seq, 1, n) ELSE seq

\* a variant of Mp4Formats that truncates before it sorts
Mp4FormatsTruncateFirst(groups) ==
    SortDesc(Truncate(CollectMp4(groups), MenuLimit))

\* Lines 226-249
Mp4Formats(groups) == Truncate(SortDesc(CollectMp4(groups)), MenuLimit)

\* Lines 262-267
QualityStr(e) ==
    ToString(e.res) \o "p MP4"
    \o (IF IsSome(e.fmt.filesize) THEN " (~" \o e.fmt.filesize[1] \o ")" ELSE "")

QualityOptions(mp4) == [i \in 1..Len(mp4) |-> QualityStr(mp4[i])]

\* Line 287
VideoFormatArg(video_id, audio_id) == video_id \o "+" \o audio_id

\* Lines 344-347
AudioLimit == 5

TopAudio(audio) == Truncate(audio, AudioLimit)

\* Lines 355-359
AudioOptionStr(f) ==
    f.id \o " - " \o f.extension
    \o (IF IsSome(f.filesize) THEN " (" \o f.filesize[1] \o ")" ELSE "")

\* Lines 353-367
AudioOptions(audio) ==
    [i \in 1..Len(TopAudio(audio)) |-> AudioOptionStr(TopAudio(audio)[i])]
    \o <<"Best audio (automatic selection)",
         "Custom format (enter format ID directly)">>

\* a variant of RetryFormat with the audio fallback for both kinds
RetryFormatAudioOnly(kind) == "bestaudio"

\* Lines 323 and 426: the format spec of the fallback invocation
RetryFormat(kind) ==
    IF kind = "Video" THEN "bestvideo+bestaudio/best" ELSE "bestaudio"

\* Lines 333 and 437
RetryFailedMessage(kind) ==
    IF kind = "Video"
    THEN "Download failed after retry. Please try a different format or URL."
    ELSE "Audio download failed after retry. Please try a different format or URL."

----------------------------------------------------------------------------
(* What the environment can supply.                                        *)

\* header and separator lines that open a listing
HeaderLines == <<"[info] formats", "ID EXT RESOLUTION", "-----">>

AudioLines ==
    <<"251 webm audio only 130k",
      "140 m4a audio only 128k",
      "249 webm audio only 50k">>

VideoLines ==
    <<"313 webm 3840x2160 9000k",
      "299 mp4 1920x1080 2500k",
      "137 mp4 1920x1080 4400k ~100.5 MiB",
      "136 mp4 1280x720 1200k",
      "135 mp4 854x480 800k",
      "18 mp4 unknown 500k",
      "134 mp4 640x360 400k",
      "133 mp4 426x240 200k",
      "160 mp4 256x144 100k",
      "278 webm 256x100 90k",
      "394 mp4 256x100 80k">>

\* the elements of seq at the indices in S, order kept
RECURSIVE Pick(_, _)
Pick(seq, S) ==
    IF Len(seq) = 0 THEN <<>>
    ELSE Pick(SubSeq(seq, 1, Len(seq) - 1), S)
         \o (IF Len(seq) \in S THEN <<seq[Len(seq)]>> ELSE <<>>)

VideoCount == IF MaxVideoLines < Len(VideoLines) THEN MaxVideoLines ELSE Len(VideoLines)

\* runs of video lines: the prefixes, the suffixes and the single lines
Windows ==
    {<<1, b>> : b \in 0..VideoCount}
    \cup {<<a, VideoCount>> : a \in 1..VideoCount}
    \cup {<<a, a>> : a \in 1..VideoCount}

\* which audio lines a listing carries
AudioPicks == {{}, {1}, {2}, {1, 2}, {2, 3}, {1, 2, 3}}

\* the standard outputs a listing invocation may leave: nothing at all, a
\* listing whose one format line carries a bare size unit as its third token,
\* or a header followed by some audio lines and a run of video lines
Listings ==
    {<<>>, HeaderLines \o <<"137 mp4 MiB">>}
    \cup {HeaderLines \o Pick(AudioLines, A) \o SubSeq(VideoLines, w[1], w[2]) :
             A \in AudioPicks, w \in Windows}

\* exit statuses of a subprocess
ExitStatuses == {0, 1}

\* what the user may type at the custom format prompt (its default included)
CustomInputs == {"bestaudio"}

\* tokens the one-line listings of SpecParse are written with
Tokens == {"137", "mp4", "MiB", "audio", "only"}

\* lines that may follow the one written from tokens
ParseTails == {<<>>, <<"140 m4a audio only 128k">>}

\* whitespace the tokens of a line are separated with
Separators == {" ", "  ", "\t"}

RECURSIVE TokenSeqs(_)
TokenSeqs(n) ==
    IF n = 0 THEN {<<>>}
    ELSE LET shorter == TokenSeqs(n - 1)
         IN  shorter \cup {Append(s, t) : s \in {q \in shorter : Len(q) = n - 1},
                                          t \in Tokens}

----------------------------------------------------------------------------
(* The run.                                                                *)

Log(e) == history' = Append(history, e)

\* a variant of FailAfter in which the error is dropped and main returns Ok
FailAfterSwallowed(events, msg) ==
    /\ pc' = "exited"
    /\ exit_code' = 0
    /\ stderr' = ""
    /\ history' = history \o events \o <<"error">>

\* main returns Err: anyhow prints "Error: ..." and the process exits with 1
FailAfter(events, msg) ==
    /\ pc' = "exited"
    /\ exit_code' = 1
    /\ stderr' = "Error: " \o msg
    /\ history' = history \o events \o <<"error">>

Fail(msg) == FailAfter(<<>>, msg)

\* a panic on the main thread: the message is printed, the exit status is 101
Panic(msg) ==
    /\ pc' = "exited"
    /\ exit_code' = 101
    /\ stderr' = "panicked: " \o msg
    /\ Log("panic")

Init ==
    /\ pc = "url"
    /\ in_tokens = <<>>
    /\ in_sep = " "
    /\ stdout = <<>>
    /\ parsed_formats = <<>>
    /\ video_resolutions = <<>>
    /\ audio_formats = <<>>
    /\ download_type = "unset"
    /\ best_audio = None
    /\ mp4_formats = <<>>
    /\ menu = <<>>
    /\ selected_idx = -1
    /\ format_arg = ""
    /\ spawned = <<>>
    /\ running = "none"
    /\ statuses = <<>>
    /\ history = <<>>
    /\ dir_created = FALSE
    /\ success_reported = FALSE
    /\ stderr = ""
    /\ exit_code = -1

\* main, lines 456-462: the URL from --url, or from the prompt
GetUrl ==
    /\ pc = "url"
    /\ \/ /\ \E given \in BOOLEAN :
                Log(IF given THEN "url_arg" ELSE "url_prompt")
          /\ pc' = "dir"
          /\ UNCHANGED <<exit_code, stderr>>
       \/ Fail("url prompt")
    /\ UNCHANGED <<in_tokens, in_sep, stdout, parsed_formats, video_resolutions,
                   audio_formats, download_type, best_audio, mp4_formats, menu,
                   selected_idx, format_arg, spawned, running, statuses, dir_created,
                   success_reported>>

\* get_download_directory, lines 125-160: --output-dir, or the directory
\* prompt (with the custom path prompt behind its last entry)
get_download_directory ==
    /\ pc = "dir"
    /\ \/ /\ \E given \in BOOLEAN :
                Log(IF given THEN "dir_arg" ELSE "dir_prompt")
          /\ pc' = "mkdir"
          /\ UNCHANGED <<exit_code, stderr>>
       \/ Fail("directory prompt")
    /\ UNCHANGED <<in_tokens, in_sep, stdout, parsed_formats, video_resolutions,
                   audio_formats, download_type, best_audio, mp4_formats, menu,
                   selected_idx, format_arg, spawned, running, statuses, dir_created,
                   success_reported>>

\* main, lines 468-471
CreateDir ==
    /\ pc = "mkdir"
    /\ \/ /\ dir_created' = TRUE
          /\ pc' = "ensure"
          /\ Log("mkdir")
          /\ UNCHANGED <<exit_code, stderr>>
       \/ /\ Fail("Failed to create output directory")
          /\ UNCHANGED dir_created
    /\ UNCHANGED <<in_tokens, in_sep, stdout, parsed_formats, video_resolutions,
                   audio_formats, download_type, best_audio, mp4_formats, menu,
                   selected_idx, format_arg, spawned, running, statuses, success_reported>>

\* ensure_yt_dlp, lines 98-106, called at line 163
ensure_yt_dlp ==
    /\ pc = "ensure"
    /\ \/ /\ pc' = "list"
          /\ Log("which_ok")
          /\ UNCHANGED <<exit_code, stderr>>
       \/ Fail("yt-dlp not found")
    /\ UNCHANGED <<in_tokens, in_sep, stdout, parsed_formats, video_resolutions,
                   audio_formats, download_type, best_audio, mp4_formats, menu,
                   selected_idx, format_arg, spawned, running, statuses, dir_created,
                   success_reported>>

\* Command::output / Command::status: the child is started and awaited
Spawn(op, format) ==
    /\ running = "none"
    /\ spawned' = Append(spawned, [op |-> op, format |-> format, started |-> TRUE])
    /\ running' = op
    /\ Log(op \o "_start")

\* Command::output / Command::status returns Err: no child was started
SpawnFails(op, format, msg) ==
    /\ spawned' = Append(spawned, [op |-> op, format |-> format, started |-> FALSE])
    /\ UNCHANGED running
    /\ Fail(msg)

\* lines 166-174: the listing invocation is started
ListStart ==
    /\ pc = "list"
    /\ \/ /\ Spawn("list", "")
          /\ pc' = "list_wait"
          /\ UNCHANGED <<exit_code, stderr>>
       \/ SpawnFails("list", "", "Failed to list formats")
    /\ UNCHANGED <<in_tokens, in_sep, stdout, parsed_formats, video_resolutions,
                   audio_formats, download_type, best_audio, mp4_formats, menu,
                   selected_idx, format_arg, statuses, dir_created, success_reported>>

\* a variant of ListExit that ends the run when the listing exits non-zero
ListExitChecksStatus ==
    /\ pc = "list_wait"
    /\ running = "list"
    /\ running' = "none"
    /\ \E status \in ExitStatuses, out \in Listings :
          /\ statuses' = Append(statuses, status)
          /\ stdout' = out
          /\ \/ /\ status = 0
                /\ pc' = "parse"
                /\ Log("list_exit")
                /\ UNCHANGED <<exit_code, stderr>>
             \/ /\ status # 0
                /\ FailAfter(<<"list_exit">>, "Failed to list formats")
    /\ UNCHANGED <<in_tokens, in_sep, parsed_formats, video_resolutions,
                   audio_formats, download_type, best_audio, mp4_formats, menu,
                   selected_idx, format_arg, spawned, dir_created,
                   success_reported>>

\* lines 174-175: the listing invocation ends; only its stdout is read
ListExit ==
    /\ pc = "list_wait"
    /\ running = "list"
    /\ \E status \in ExitStatuses, out \in Listings :
          /\ statuses' = Append(statuses, status)
          /\ stdout' = out
    /\ running' = "none"
    /\ pc' = "parse"
    /\ Log("list_exit")
    /\ UNCHANGED <<in_tokens, in_sep, parsed_formats, video_resolutions,
                   audio_formats, download_type, best_audio, mp4_formats, menu,
                   selected_idx, format_arg, spawned, dir_created, success_reported, stderr,
                   exit_code>>

\* lines 184-196: parse the listing and classify the formats
ParseClassify ==
    /\ pc = "parse"
    /\ LET parsed == parse_available_formats(stdout)
       IN  \/ /\ parsed.tag = "Ok"
              /\ parsed_formats' = parsed.val
              /\ video_resolutions' = GroupVideo(parsed.val)
              /\ audio_formats' = CollectAudio(parsed.val)
              /\ pc' = "kind"
              /\ Log("parse")
              /\ UNCHANGED <<exit_code, stderr>>
           \/ /\ parsed.tag = "Panic"
              /\ Panic("slice index")
              /\ UNCHANGED <<parsed_formats, video_resolutions, audio_formats>>
    /\ UNCHANGED <<in_tokens, in_sep, stdout, download_type, best_audio,
                   mp4_formats, menu, selected_idx, format_arg, spawned, running, statuses,
                   dir_created, success_reported>>

\* a variant of SelectKind that goes to the download without the
\* quality/format prompt
SelectKindSkipsMenu ==
    /\ pc = "kind"
    /\ \/ /\ \E kind \in {"Video", "Audio"} :
                /\ download_type' = kind
                /\ format_arg' = RetryFormat(kind)
          /\ pc' = "primary"
          /\ Log("kind_prompt")
          /\ UNCHANGED <<exit_code, stderr>>
       \/ /\ Fail("kind prompt")
          /\ UNCHANGED <<download_type, format_arg>>
    /\ UNCHANGED <<in_tokens, in_sep, stdout, parsed_formats, video_resolutions,
                   audio_formats, best_audio, mp4_formats, menu, selected_idx,
                   spawned, running, statuses, dir_created, success_reported>>

\* lines 199-208: the media kind prompt
SelectKind ==
    /\ pc = "kind"
    /\ \/ /\ \E kind \in {"Video", "Audio"} :
                /\ download_type' = kind
                /\ pc' = IF kind = "Video" THEN "video_menu" ELSE "audio_menu"
          /\ Log("kind_prompt")
          /\ UNCHANGED <<exit_code, stderr>>
       \/ /\ Fail("kind prompt")
          /\ UNCHANGED download_type
    /\ UNCHANGED <<in_tokens, in_sep, stdout, parsed_formats, video_resolutions,
                   audio_formats, best_audio, mp4_formats, menu, selected_idx,
                   format_arg, spawned, running, statuses, dir_created,
                   success_reported>>

\* lines 217-274: the best audio format, then the MP4 quality menu
VideoMenu ==
    /\ pc = "video_menu"
    /\ LET audio == BestAudio(audio_formats)
           mp4   == Mp4Formats(video_resolutions)
       IN  \/ /\ ~IsSome(audio)
              /\ Panic("No audio formats found")
              /\ UNCHANGED <<best_audio, mp4_formats, menu>>
           \/ /\ IsSome(audio)
              /\ Len(mp4) = 0
              /\ best_audio' = audio
              /\ mp4_formats' = mp4
              /\ FailAfter(<<"mp4_collected">>, "No suitable MP4 formats found")
              /\ UNCHANGED menu
           \/ /\ IsSome(audio)
              /\ Len(mp4) > 0
              /\ best_audio' = audio
              /\ mp4_formats' = mp4
              /\ menu' = QualityOptions(mp4)
              /\ pc' = "quality"
              /\ history' = history \o <<"mp4_collected", "menu">>
              /\ UNCHANGED <<exit_code, stderr>>
    /\ UNCHANGED <<in_tokens, in_sep, stdout, parsed_formats, video_resolutions,
                   audio_formats, download_type, selected_idx, format_arg,
                   spawned, running, statuses, dir_created, success_reported>>

\* lines 277-287: the quality prompt and the combined format spec
SelectQuality ==
    /\ pc = "quality"
    /\ \/ /\ \E idx \in 0..(Len(menu) - 1) :
                /\ selected_idx' = idx
                /\ format_arg' = VideoFormatArg(mp4_formats[idx + 1].fmt.id,
                                                best_audio[1].id)
          /\ pc' = "primary"
          /\ Log("select_prompt")
          /\ UNCHANGED <<exit_code, stderr>>
       \/ /\ Fail("quality prompt")
          /\ UNCHANGED <<selected_idx, format_arg>>
    /\ UNCHANGED <<in_tokens, in_sep, stdout, parsed_formats, video_resolutions,
                   audio_formats, download_type, best_audio, mp4_formats, menu,
                   spawned, running, statuses, dir_created, success_reported>>

\* lines 341-367: the audio menu
AudioMenu ==
    /\ pc = "audio_menu"
    /\ menu' = AudioOptions(audio_formats)
    /\ pc' = "audio_select"
    /\ Log("menu")
    /\ UNCHANGED <<in_tokens, in_sep, stdout, parsed_formats, video_resolutions,
                   audio_formats, download_type, best_audio, mp4_formats,
                   selected_idx, format_arg, spawned, running, statuses,
                   dir_created, success_reported, stderr, exit_code>>

\* lines 369-392: the audio format prompt, and the custom format prompt
SelectAudio ==
    /\ pc = "audio_select"
    /\ LET top == TopAudio(audio_formats)
       IN  \/ /\ \E idx \in 0..(Len(menu) - 1) :
                    /\ selected_idx' = idx
                    /\ \/ /\ idx < Len(top)
                          /\ format_arg' = top[idx + 1].id
                          /\ Log("select_prompt")
                       \/ /\ idx = Len(top)
                          /\ format_arg' = "bestaudio"
                          /\ Log("select_prompt")
                       \/ /\ idx > Len(top)
                          /\ \E text \in CustomInputs : format_arg' = text
                          /\ history' = history \o <<"select_prompt", "custom_prompt">>
              /\ pc' = "primary"
              /\ UNCHANGED <<exit_code, stderr>>
           \/ /\ Fail("audio prompt")
              /\ UNCHANGED <<selected_idx, format_arg>>
           \/ /\ selected_idx' = Len(top) + 1
              /\ FailAfter(<<"select_prompt">>, "custom format prompt")
              /\ UNCHANGED format_arg
    /\ UNCHANGED <<in_tokens, in_sep, stdout, parsed_formats, video_resolutions,
                   audio_formats, download_type, best_audio, mp4_formats, menu,
                   spawned, running, statuses, dir_created, success_reported>>

\* lines 296-314 and 398-417: the primary download is started
PrimaryStart ==
    /\ pc = "primary"
    /\ \/ /\ Spawn("primary", format_arg)
          /\ pc' = "primary_wait"
          /\ UNCHANGED <<exit_code, stderr>>
       \/ SpawnFails("primary", format_arg, "Failed to execute yt-dlp")
    /\ UNCHANGED <<in_tokens, in_sep, stdout, parsed_formats, video_resolutions,
                   audio_formats, download_type, best_audio, mp4_formats, menu,
                   selected_idx, format_arg, statuses, dir_created,
                   success_reported>>

\* lines 314-317 and 417-420: the primary download ends
PrimaryExit ==
    /\ pc = "primary_wait"
    /\ running = "primary"
    /\ \E status \in ExitStatuses :
          /\ statuses' = Append(statuses, status)
          /\ pc' = IF status = 0 THEN "report" ELSE "retry"
    /\ running' = "none"
    /\ Log("primary_exit")
    /\ UNCHANGED <<in_tokens, in_sep, stdout, parsed_formats, video_resolutions,
                   audio_formats, download_type, best_audio, mp4_formats, menu,
                   selected_idx, format_arg, spawned, dir_created,
                   success_reported, stderr, exit_code>>

\* lines 320-330 and 423-434: the one fallback download is started
RetryStart ==
    /\ pc = "retry"
    /\ \/ /\ Spawn("retry", RetryFormat(download_type))
          /\ pc' = "retry_wait"
          /\ UNCHANGED <<exit_code, stderr>>
       \/ SpawnFails("retry", RetryFormat(download_type),
                     "Failed to execute retry download")
    /\ UNCHANGED <<in_tokens, in_sep, stdout, parsed_formats, video_resolutions,
                   audio_formats, download_type, best_audio, mp4_formats, menu,
                   selected_idx, format_arg, statuses, dir_created,
                   success_reported>>

\* lines 330-335 and 434-439: the fallback download ends
RetryExit ==
    /\ pc = "retry_wait"
    /\ running = "retry"
    /\ running' = "none"
    /\ \E status \in ExitStatuses :
          /\ statuses' = Append(statuses, status)
          /\ \/ /\ status = 0
                /\ pc' = "report"
                /\ Log("retry_exit")
                /\ UNCHANGED <<exit_code, stderr>>
             \/ /\ status # 0
                /\ FailAfter(<<"retry_exit">>, RetryFailedMessage(download_type))
    /\ UNCHANGED <<in_tokens, in_sep, stdout, parsed_formats, video_resolutions,
                   audio_formats, download_type, best_audio, mp4_formats, menu,
                   selected_idx, format_arg, spawned, dir_created,
                   success_reported>>

\* lines 337-338, 441-442, 446 and 476: success is printed, main returns Ok
Report ==
    /\ pc = "report"
    /\ success_reported' = TRUE
    /\ exit_code' = 0
    /\ pc' = "exited"
    /\ Log("success")
    /\ UNCHANGED <<in_tokens, in_sep, stdout, parsed_formats, video_resolutions,
                   audio_formats, download_type, best_audio, mp4_formats, menu,
                   selected_idx, format_arg, spawned, running, statuses,
                   dir_created, stderr>>

Next ==
    \/ GetUrl
    \/ get_download_directory
    \/ CreateDir
    \/ ensure_yt_dlp
    \/ ListStart
    \/ ListExit
    \/ ParseClassify
    \/ SelectKind
    \/ VideoMenu
    \/ SelectQuality
    \/ AudioMenu
    \/ SelectAudio
    \/ PrimaryStart
    \/ PrimaryExit
    \/ RetryStart
    \/ RetryExit
    \/ Report

Spec == Init /\ [][Next]_vars

----------------------------------------------------------------------------
(* The parser alone: a listing of one line written from a few tokens.      *)

InitParse ==
    /\ pc = "parse"
    /\ in_tokens \in TokenSeqs(MaxTokens)
    /\ in_sep \in Separators
    /\ \E tail \in ParseTails : stdout = <<Join(in_tokens, in_sep)>> \o tail
    /\ parsed_formats = <<>>
    /\ video_resolutions = <<>>
    /\ audio_formats = <<>>
    /\ download_type = "unset"
    /\ best_audio = None
    /\ mp4_formats = <<>>
    /\ menu = <<>>
    /\ selected_idx = -1
    /\ format_arg = ""
    /\ spawned = <<[op |-> "list", format |-> "", started |-> TRUE]>>
    /\ running = "none"
    /\ statuses = <<0>>
    /\ history = <<"url_arg", "dir_arg", "mkdir", "which_ok", "list_start",
                   "list_exit">>
    /\ dir_created = TRUE
    /\ success_reported = FALSE
    /\ stderr = ""
    /\ exit_code = -1

NextParse == ParseClassify

SpecParse == InitParse /\ [][NextParse]_vars

----------------------------------------------------------------------------
(* Properties.                                                             *)

Happened(e) == \E i \in 1..Len(history) : history[i] = e

\* the invocations of one operation, in order
Invocations(op) == SelectSeq(spawned, LAMBDA c : c.op = op)

\* C1: a primary download that exits non-zero is followed by exactly one retry
\* invocation, with the format spec "bestvideo+bestaudio/best" for Video and
\* "bestaudio" for Audio; when the retry exits non-zero too the run ends with
\* the download-failed error and three invocations in all; a primary download
\* that exits zero is followed by no retry.
C1_RetryOnce ==
    /\ Len(Invocations("primary")) <= 1
    /\ Len(Invocations("retry")) <= 1
    /\ Len(spawned) <= 3
    /\ Len(Invocations("retry")) = 1 =>
          /\ Len(statuses) >= 2 /\ statuses[2] # 0
          /\ spawned[3].op = "retry"
          /\ download_type = "Video" => spawned[3].format = "bestvideo+bestaudio/best"
          /\ download_type = "Audio" => spawned[3].format = "bestaudio"
    /\ (Len(statuses) >= 2 /\ statuses[2] # 0 /\ pc # "retry") =>
          Len(Invocations("retry")) = 1
    /\ (Len(statuses) >= 2 /\ statuses[2] = 0) => Len(Invocations("retry")) = 0
    /\ (Len(statuses) = 3 /\ statuses[3] # 0) =>
          /\ pc = "exited"
          /\ exit_code = 1
          /\ download_type = "Video" => stderr =
               "Error: Download failed after retry. Please try a different format or URL."
          /\ download_type = "Audio" => stderr =
               "Error: Audio download failed after retry. Please try a different format or URL."

C1_Witness ==
    /\ download_type = "Video"
    /\ Len(statuses) = 3
    /\ statuses[2] # 0
    /\ statuses[3] # 0
    /\ pc = "exited"

\* C2: the check for yt-dlp comes before every other step: no URL prompt, no
\* directory prompt, no directory creation and no subprocess precedes it, and
\* a run that ends because the tool is missing has done none of them.
C2_CheckFirst ==
    /\ (\/ Happened("url_prompt")
        \/ Happened("dir_prompt")
        \/ dir_created
        \/ Len(spawned) > 0) => (Len(history) > 0 /\ history[1] = "which_ok")
    /\ stderr = "Error: yt-dlp not found" =>
          /\ ~Happened("url_prompt")
          /\ ~Happened("dir_prompt")
          /\ ~dir_created
          /\ Len(spawned) = 0

\* C3: with no audio format in the listing and Video chosen, the run ends with
\* an ordinary error value (exit status 1, "Error: ..."), never with a panic.
C3_NoAudioIsError ==
    (download_type = "Video" /\ Len(audio_formats) = 0 /\ pc = "exited") =>
        /\ exit_code = 1
        /\ StartsWith(stderr, "Error: ")

\* C4: a line of at least 3 tokens always parses, to a descriptor whose id is
\* token 0 and whose extension is token 1, wherever a size unit stands in it;
\* a line of fewer than 3 tokens yields no descriptor.
C4_ParseTotal ==
    pc # "parse" =>
        /\ pc = "kind"
        /\ Len(in_tokens) >= 3 =>
              /\ Len(parsed_formats) = Len(stdout)
              /\ parsed_formats[1].id = in_tokens[1]
              /\ parsed_formats[1].extension = in_tokens[2]
        /\ Len(in_tokens) < 3 => Len(parsed_formats) = Len(stdout) - 1

\* the heights for which the listing has a video descriptor with extension mp4
C5_Mp4Heights ==
    {parsed_formats[i].resolution[1] :
        i \in {j \in 1..Len(parsed_formats) :
                  /\ parsed_formats[j].is_video
                  /\ parsed_formats[j].extension = "mp4"
                  /\ Len(parsed_formats[j].resolution) = 1}}

C5_MenuHeights == {mp4_formats[i].res : i \in 1..Len(mp4_formats)}

RECURSIVE C7_GroupedCount(_)
C7_GroupedCount(keys) ==
    IF keys = {} THEN 0
    ELSE LET k == CHOOSE x \in keys : TRUE
         IN  Len(video_resolutions[k]) + C7_GroupedCount(keys \ {k})

\* the line was written with "audio" and "only" next to each other, one space
\* between them
C7_WrittenAudioOnly ==
    /\ in_sep = " "
    /\ \E k \in 1..(Len(in_tokens) - 1) :
          in_tokens[k] = "audio" /\ in_tokens[k + 1] = "only"

\* C7: every parsed descriptor has is_video = ~is_audio, and is_audio exactly
\* when its line contains "audio only"; classification puts each descriptor in
\* exactly one partition (the resolution group of its height, or the audio
\* list, which keeps the listing order) and drops none.
C7_Partition ==
    pc = "kind" =>
        /\ \A i \in 1..Len(parsed_formats) :
              parsed_formats[i].is_video = ~parsed_formats[i].is_audio
        /\ Len(in_tokens) >= 3 =>
              parsed_formats[1].is_audio = C7_WrittenAudioOnly
        /\ audio_formats = SelectSeq(parsed_formats, LAMBDA f : f.is_audio)
        /\ Len(audio_formats) + C7_GroupedCount(DOMAIN video_resolutions)
              = Len(parsed_formats)
        /\ \A i \in 1..Len(parsed_formats) :
              LET f == parsed_formats[i]
                  inAudio == \E j \in 1..Len(audio_formats) : audio_formats[j] = f
                  groups  == {k \in DOMAIN video_resolutions :
                                 \E j \in 1..Len(video_resolutions[k]) :
                                    video_resolutions[k][j] = f}
              IN  IF f.is_audio
                  THEN inAudio /\ groups = {}
                  ELSE ~inAudio /\ groups = {f.resolution}

C7_Witness ==
    /\ pc = "kind"
    /\ Len(in_tokens) >= 3
    /\ C7_WrittenAudioOnly
    /\ Len(audio_formats) = 2
    /\ audio_formats[2].id = "140"

\* C8: a run that ends without reporting success ends with a printed error and
\* a non-zero exit status, in each of the unrecoverable cases; a run exits 0
\* only after reporting success, and success is reported only when the last
\* download invocation (the primary one or the retry) exited zero.
C8_ExitStatus ==
    /\ exit_code # -1 <=> pc = "exited"
    /\ exit_code = 0 <=> success_reported
    /\ success_reported =>
          /\ Len(statuses) \in {2, 3}
          /\ statuses[Len(statuses)] = 0
          /\ stderr = ""
    /\ (pc = "exited" /\ ~success_reported) =>
          /\ exit_code \in {1, 101}
          /\ stderr # ""
    /\ (Len(statuses) = 3 /\ statuses[3] # 0) => (pc = "exited" /\ exit_code = 1)
    /\ (Happened("mp4_collected") /\ Len(mp4_formats) = 0) =>
          (pc = "exited" /\ exit_code = 1)
    /\ (download_type = "Video" /\ Len(audio_formats) = 0) =>
          (pc = "video_menu" \/ (pc = "exited" /\ exit_code # 0))
    /\ (~dir_created /\ pc \notin {"url", "dir", "mkdir"}) =>
          (pc = "exited" /\ exit_code = 1)
    /\ (Happened("mkdir") /\ ~Happened("which_ok") /\ pc # "ensure") =>
          (pc = "exited" /\ exit_code = 1)

C8_Witness ==
    /\ pc = "exited"
    /\ Len(statuses) = 3
    /\ statuses[3] # 0
    /\ exit_code = 1
    /\ ~success_reported

\* the place of a step in the order of a run
C9_Rank(e) ==
    CASE e \in {"url_arg", "url_prompt"} -> 1
      [] e \in {"dir_arg", "dir_prompt"} -> 2
      [] e = "mkdir" -> 3
      [] e = "which_ok" -> 4
      [] e = "list_start" -> 5
      [] e = "list_exit" -> 6
      [] e = "parse" -> 7
      [] e = "kind_prompt" -> 8
      [] e = "mp4_collected" -> 9
      [] e = "menu" -> 10
      [] e = "select_prompt" -> 11
      [] e = "custom_prompt" -> 12
      [] e = "primary_start" -> 13
      [] e = "primary_exit" -> 14
      [] e = "retry_start" -> 15
      [] e = "retry_exit" -> 16
      [] e = "success" -> 17
      [] OTHER -> 18

\* the steps every later step has behind it
C9_Required == {1, 2, 5, 6, 7, 8, 11, 13, 14}

C9_Starts == {"list_start", "primary_start", "retry_start"}

C9_ExitOf(e) ==
    CASE e = "list_start" -> "list_exit"
      [] e = "primary_start" -> "primary_exit"
      [] e = "retry_start" -> "retry_exit"

\* C9: the steps of a run come in the one order URL, directory, listing
\* subprocess to completion, parse and classify, kind prompt, quality/format
\* prompt, primary download, optional retry, report; no download is started
\* before the quality/format selection, and a subprocess is started only after
\* the one before it has ended.
C9_Sequential ==
    /\ \A i \in 1..(Len(history) - 1) :
          C9_Rank(history[i]) < C9_Rank(history[i + 1])
    /\ \A j \in 1..Len(history) :
          C9_Rank(history[j]) < 18 =>
             \A r \in C9_Required :
                r < C9_Rank(history[j]) =>
                   \E i \in 1..(j - 1) : C9_Rank(history[i]) = r
    /\ \A j \in 1..Len(history) :
          history[j] = "retry_exit" => \E i \in 1..(j - 1) : history[i] = "retry_start"
    /\ \A j \in 1..Len(history) :
          history[j] \in {"primary_start", "retry_start"} =>
             \E i \in 1..(j - 1) : history[i] = "select_prompt"
    /\ \A i \in {n \in 1..Len(history) : history[n] \in C9_Starts} :
          \A j \in {n \in (i + 1)..Len(history) : history[n] \in C9_Starts} :
             \E k \in (i + 1)..(j - 1) : history[k] = C9_ExitOf(history[i])
    /\ running # "none" =>
          /\ history[Len(history)] = running \o "_start"
          /\ spawned[Len(spawned)].op = running
    /\ Len(SelectSeq(spawned, LAMBDA c : c.started))
          = Len(SelectSeq(history, LAMBDA e : e \in C9_Starts))

C9_Witness ==
    /\ Happened("url_prompt")
    /\ Happened("dir_prompt")
    /\ Happened("retry_exit")
    /\ Happened("success")

\* C10: the exit status of the listing invocation decides nothing: whatever it
\* is, and when nothing was parsed, the run goes on to the kind prompt, never
\* ends with a listing error once the invocation was started, and with Audio
\* chosen offers exactly the "Best audio" and "Custom format" entries and
\* invokes a download with the format chosen there.
C10_ListStatusIgnored ==
    /\ (Len(spawned) > 0 /\ spawned[1].started) =>
          stderr # "Error: Failed to list formats"
    /\ (Len(history) > 0 /\ history[Len(history)] = "list_exit") =>
          (pc = "parse" /\ exit_code = -1)
    /\ (Len(history) > 0 /\ history[Len(history)] = "parse") =>
          (pc = "kind" /\ exit_code = -1)
    /\ (download_type = "Audio" /\ Len(parsed_formats) = 0 /\ Happened("menu")) =>
          /\ menu = <<"Best audio (automatic selection)",
                      "Custom format (enter format ID directly)">>
          /\ (Happened("select_prompt")
              /\ pc # "primary"
              /\ stderr # "Error: custom format prompt") =>
                 /\ Len(spawned) >= 2
                 /\ spawned[2].op = "primary"
                 /\ spawned[2].format = "bestaudio"

C10_Witness ==
    /\ Len(statuses) = 1
    /\ statuses[1] # 0
    /\ stdout = <<>>
    /\ download_type = "Audio"
    /\ running = "primary"

====
